---- MODULE Spec2Model ----
(***************************************************************************)
(* A model of Audio-Arousal Model/audio_model.py.                          *)
(*                                                                         *)
(* Three specifications share this module:                                  *)
(*   SpecShape   AudioRegressor.forward at the level of tensor shapes, one  *)
(*               action per statement / layer, with the real sizes.         *)
(*   SpecExtract AudioExtractor.forward on tensor values, run on two        *)
(*               inputs with the same weights (sizes along time and         *)
(*               frequency scaled down, channel counts and kernels real).   *)
(*   SpecAttn    AEBlock1.forward's mask and the first layer's              *)
(*               MHA / Self_Attention on tensor values (sizes scaled down). *)
(***************************************************************************)
EXTENDS Integers, Sequences, FiniteSets, TLC

VARIABLES
    pc,            \* position in the forward pass being modelled
    audio,         \* SpecShape: shape of the input of AudioRegressor.forward
    x,             \* SpecShape: shape of AudioExtractor.forward's local x
    audio_output,  \* SpecShape: the tensor bound to audio_output
    masking,       \* SpecShape: shape of AEBlock1.forward's masking
    layer,         \* SpecShape: number of AELayer1 layers already applied
    h0,            \* SpecShape: initial hidden state given to the GRU
    out,           \* SpecShape: the GRU's output sequence
    h_t,           \* SpecShape: out[:, -1, :]
    output,        \* SpecShape: fc(h_t)
    ret,           \* SpecShape: the returned pair
    wseed,         \* SpecExtract: which weight tensors the four convolutions hold
    ina, inb,      \* SpecExtract: the two inputs given to AudioExtractor.forward
    xa, xb,        \* SpecExtract: forward's local x in the run on ina / on inb
    fa,            \* SpecExtract: conv4's output in the run on ina
    caller,        \* SpecAttn: who calls the attention layer, with or without mask
    aseed,         \* SpecAttn: which weights Q_fc, K_fc, V_fc hold
    ax,            \* SpecAttn: the input x of AEBlock1.forward, [B, T, D]
    mask,          \* SpecAttn: the mask argument of Self_Attention, Empty for None
    Q, K, V,       \* SpecAttn: the arguments of Self_Attention, [B, H, T, hd]
    raw,           \* SpecAttn: KV / sqrt(dim), the score before masking
    score,         \* SpecAttn: Self_Attention's local score
    att_value      \* SpecAttn: matmul(score, V)

shapeVars == <<audio, x, audio_output, masking, layer, h0, out, h_t, output, ret>>
extVars == <<wseed, ina, inb, xa, xb, fa>>
attVars == <<caller, aseed, ax, mask, Q, K, V, raw, score, att_value>>
vars == <<pc, shapeVars, extVars, attVars>>

None == [shape |-> <<>>, hist |-> <<>>]
Empty == [shape |-> <<>>, data |-> <<>>]

----------------------------------------------------------------------------
(* Sizes of the program.                                                   *)

InChannels == 2
TimeLen == 512
FreqLen == 128
HiddenDim == 768
NumHead == 4
NLayers == 6
GruHidden == 64
GruLayers == 2
FcOut == 1

(* Bound of the model: batch sizes 1..MaxBatch.                            *)
MaxBatch == 2

----------------------------------------------------------------------------
(* nn.Conv2d: parameters of the four convolutions, as                       *)
(* [cin, cout, kh, kw, ph, pw, sh, sw].                                     *)

ConvLayer(cin, cout, kh, kw, ph, pw, sh, sw) ==
    [cin |-> cin, cout |-> cout, kh |-> kh, kw |-> kw,
     ph |-> ph, pw |-> pw, sh |-> sh, sw |-> sw]

Conv1UnitStride == ConvLayer(2, 8, 1, 4, 0, 1, 1, 1)
Conv1 == ConvLayer(2, 8, 1, 4, 0, 1, 1, 2)
Conv2 == ConvLayer(8, 8, 1, 7, 0, 3, 1, 1)
Conv3TimeKernel == ConvLayer(8, 24, 3, 4, 1, 1, 1, 2)
Conv3 == ConvLayer(8, 24, 1, 4, 0, 1, 1, 2)
Conv4 == ConvLayer(24, 24, 1, 7, 0, 3, 1, 1)

(* Output length of a convolution along one axis (torch: floor).           *)
ConvOut(n, k, p, s) == ((n + 2 * p - k) \div s) + 1

(* Conv2d accepts [B, cin, H, W] with the padded extent at least the kernel. *)
ConvAccepts(L, s) ==
    /\ Len(s) = 4
    /\ s[2] = L.cin
    /\ s[3] + 2 * L.ph >= L.kh
    /\ s[4] + 2 * L.pw >= L.kw

ConvShape(L, s) ==
    <<s[1], L.cout, ConvOut(s[3], L.kh, L.ph, L.sh), ConvOut(s[4], L.kw, L.pw, L.sw)>>

(* Tensor.transpose(d1, d2) on a shape; dims are 0-based in the code.      *)
TransposeShape(s, d1, d2) ==
    [i \in 1..Len(s) |-> IF i = d1 + 1 THEN s[d2 + 1]
                         ELSE IF i = d2 + 1 THEN s[d1 + 1] ELSE s[i]]

RECURSIVE Numel(_)
Numel(s) == IF s = <<>> THEN 1 ELSE s[1] * Numel(Tail(s))

(* x.reshape([batch_size, 512, -1]): the -1 is inferred; it fails when the *)
(* element count is not a multiple of the known dimensions.                *)
ReshapeOk(s, b, rows) ==
    /\ b * rows > 0
    /\ Numel(s) % (b * rows) = 0
    /\ Numel(s) > 0

ReshapeShape(s, b, rows) == <<b, rows, Numel(s) \div (b * rows)>>

----------------------------------------------------------------------------
(* SpecShape: AudioRegressor.forward on shapes.                            *)

InputShapes ==
    { <<b, c, t, f>> : b \in 1..MaxBatch,
                       c \in {InChannels, InChannels - 1},
                       t \in {TimeLen, TimeLen \div 2, TimeLen * 2, 1},
                       f \in {FreqLen, FreqLen \div 2, FreqLen * 2} }

InitShape ==
    /\ pc = "conv1"
    /\ audio \in InputShapes
    /\ x = audio
    /\ audio_output = None
    /\ masking = <<>>
    /\ layer = 0
    /\ h0 = None
    /\ out = None
    /\ h_t = None
    /\ output = None
    /\ ret = <<>>
    /\ wseed = 0
    /\ ina = Empty /\ inb = Empty /\ xa = Empty /\ xb = Empty /\ fa = Empty
    /\ caller = "" /\ aseed = 0 /\ ax = Empty /\ mask = Empty
    /\ Q = Empty /\ K = Empty /\ V = Empty
    /\ raw = Empty /\ score = Empty /\ att_value = Empty

(* x = F.relu(self.convN(x)); relu keeps the shape.                        *)
ConvStep(here, L, next) ==
    /\ pc = here
    /\ IF ConvAccepts(L, x)
         THEN x' = ConvShape(L, x) /\ pc' = next
         ELSE x' = x /\ pc' = "error"
    /\ UNCHANGED <<extVars, attVars>>
    /\ UNCHANGED <<audio, audio_output, masking, layer, h0, out, h_t, output, ret>>

ExtConv1 == ConvStep("conv1", Conv1, "conv2")
ExtConv2 == ConvStep("conv2", Conv2, "conv3")
ExtConv3 == ConvStep("conv3", Conv3, "conv4")
ExtConv4 == ConvStep("conv4", Conv4, "transpose")

ExtTranspose ==
    /\ pc = "transpose"
    /\ x' = TransposeShape(x, 2, 1)
    /\ pc' = "reshape"
    /\ UNCHANGED <<extVars, attVars>>
    /\ UNCHANGED <<audio, audio_output, masking, layer, h0, out, h_t, output, ret>>

(* x.reshape([batch_size, 512, -1]); return x; the caller binds the result *)
(* to audio_output.                                                        *)
ExtReshape ==
    /\ pc = "reshape"
    /\ IF ReshapeOk(x, audio[1], TimeLen)
         THEN /\ x' = ReshapeShape(x, audio[1], TimeLen)
              /\ audio_output' = [shape |-> x', hist |-> <<"Extractor">>]
              /\ pc' = "encoder"
         ELSE /\ UNCHANGED <<x, audio_output>>
              /\ pc' = "error"
    /\ UNCHANGED <<extVars, attVars>>
    /\ UNCHANGED <<audio, masking, layer, h0, out, h_t, output, ret>>

(* padding_mask_audio on a shape: torch.all(.., axis=2) drops axis 2 and   *)
(* unsqueeze(-2) inserts an axis of size 1 before the last one.            *)
MaskShape(s) == <<s[1], 1, s[2]>>

(* masking = padding_mask_audio(x)                                         *)
EncMask ==
    /\ pc = "encoder"
    /\ masking' = MaskShape(x)
    /\ pc' = "layers"
    /\ UNCHANGED <<extVars, attVars>>
    /\ UNCHANGED <<audio, x, audio_output, layer, h0, out, h_t, output, ret>>

(* nn.Linear(in_features, ..) accepts a tensor whose last axis is          *)
(* in_features.                                                            *)
LinearAccepts(s, in_features) == s[Len(s)] = in_features

(* Shape of the attention scores of MHA.forward: Q, K are                  *)
(* [B, num_head, T, head_dim], so Q K^T is [B, num_head, T, T].            *)
ScoreShape(s, num_head) == <<s[1], num_head, s[2], s[2]>>

(* The mask, after unsqueeze(1), broadcasts against the scores when each   *)
(* of its axes is 1 or equal to the score's axis.                          *)
Broadcasts(m, s) ==
    /\ Len(m) = Len(s)
    /\ \A i \in 1..Len(s) : m[i] = 1 \/ m[i] = s[i]

UnsqueezeShape(s, d) == SubSeq(s, 1, d) \o <<1>> \o SubSeq(s, d + 1, Len(s))

(* AELayer1.forward keeps the shape of x: the residual additions, both     *)
(* LayerNorms and the FFN all return [B, T, hidden_dim].                   *)
LayerAccepts(s, m) ==
    /\ LinearAccepts(s, HiddenDim)
    /\ Broadcasts(UnsqueezeShape(m, 1), ScoreShape(s, NumHead))

(* for layer in self.AE1: x = layer(x, masking)                            *)
EncLayer ==
    /\ pc = "layers"
    /\ layer < NLayers
    /\ IF LayerAccepts(x, masking)
         THEN layer' = layer + 1 /\ pc' = "layers"
         ELSE layer' = layer /\ pc' = "error"
    /\ UNCHANGED <<extVars, attVars>>
    /\ UNCHANGED <<audio, x, audio_output, masking, h0, out, h_t, output, ret>>

(* return x, bound by the caller: audio_output = self.AEBlock1(audio_output) *)
EncReturn ==
    /\ pc = "layers"
    /\ layer = NLayers
    /\ audio_output' = [shape |-> x, hist |-> Append(audio_output.hist, "AEBlock1")]
    /\ pc' = "gru"
    /\ UNCHANGED <<extVars, attVars>>
    /\ UNCHANGED <<audio, x, masking, layer, h0, out, h_t, output, ret>>

(* torch.zeros(2, batch_size, 64)                                          *)
Zeros(s) == [shape |-> s, hist |-> <<"zeros">>]

(* nn.GRU(input_size=hidden_dim, hidden_size=64, num_layers=2,             *)
(* batch_first=True): out is [B, T, 64].                                   *)
GruAccepts(s, h) ==
    /\ Len(s) = 3
    /\ s[3] = HiddenDim
    /\ h = <<GruLayers, s[1], GruHidden>>

GruOutShape(s) == <<s[1], s[2], GruHidden>>

(* h0 = torch.zeros(..); out, h = self.gru(audio_output, h0)               *)
Gru ==
    /\ pc = "gru"
    /\ h0' = Zeros(<<GruLayers, audio[1], GruHidden>>)
    /\ IF GruAccepts(audio_output.shape, h0'.shape)
         THEN /\ out' = [shape |-> GruOutShape(audio_output.shape),
                         hist |-> Append(audio_output.hist, "gru"),
                         init |-> h0'.hist]
              /\ pc' = "select"
         ELSE out' = out /\ pc' = "error"
    /\ UNCHANGED <<extVars, attVars>>
    /\ UNCHANGED <<audio, x, audio_output, masking, layer, h_t, output, ret>>

(* Python index i on an axis of length n (negative counts from the end).   *)
NormIndex(i, n) == IF i < 0 THEN i + n ELSE i

(* h_t = out[:, -1, :]                                                     *)
SelectIndex == -1

Select ==
    /\ pc = "select"
    /\ h_t' = [shape |-> <<out.shape[1], out.shape[3]>>,
               hist  |-> Append(out.hist, "select"),
               index |-> NormIndex(SelectIndex, out.shape[2])]
    /\ pc' = "fc"
    /\ UNCHANGED <<extVars, attVars>>
    /\ UNCHANGED <<audio, x, audio_output, masking, layer, h0, out, output, ret>>

(* output = self.fc(h_t), fc = nn.Linear(64, 1)                            *)
Fc ==
    /\ pc = "fc"
    /\ IF LinearAccepts(h_t.shape, GruHidden)
         THEN /\ output' = [shape |-> <<h_t.shape[1], FcOut>>,
                            hist  |-> Append(h_t.hist, "fc")]
              /\ pc' = "return"
         ELSE output' = output /\ pc' = "error"
    /\ UNCHANGED <<extVars, attVars>>
    /\ UNCHANGED <<audio, x, audio_output, masking, layer, h0, out, h_t, ret>>

(* return output, audio_output                                             *)
ForwardReturnGru(o, a, g) == <<o, g>>
ForwardReturn(o, a, g) == <<o, a>>

Return ==
    /\ pc = "return"
    /\ ret' = ForwardReturn(output, audio_output, out)
    /\ pc' = "done"
    /\ UNCHANGED <<extVars, attVars>>
    /\ UNCHANGED <<audio, x, audio_output, masking, layer, h0, out, h_t, output>>

NextShape ==
    \/ ExtConv1 \/ ExtConv2 \/ ExtConv3 \/ ExtConv4
    \/ ExtTranspose \/ ExtReshape
    \/ EncMask \/ EncLayer \/ EncReturn
    \/ Gru \/ Select \/ Fc \/ Return

SpecShape == InitShape /\ [][NextShape]_vars

----------------------------------------------------------------------------
(* Claims checked under SpecShape.                                         *)

StdInput == audio[2] = InChannels /\ audio[3] = TimeLen /\ audio[4] = FreqLen

(* C1: for every input of shape [B, 2, 512, 128] the extractor never fails, *)
(* the convolutions give [B, 8, 512, 64], [B, 8, 512, 64], [B, 24, 512, 32] *)
(* and [B, 24, 512, 32] (time length 512 kept by every layer, frequency     *)
(* width 128 -> 64 -> 64 -> 32), and the value returned by                  *)
(* AudioExtractor.forward has shape [B, 512, 768].                          *)
C1_ExtractorShape ==
    StdInput =>
        /\ pc # "error"
        /\ pc = "conv2" => x = <<audio[1], 8, 512, 64>>
        /\ pc = "conv3" => x = <<audio[1], 8, 512, 64>>
        /\ pc = "conv4" => x = <<audio[1], 24, 512, 32>>
        /\ pc = "transpose" => x = <<audio[1], 24, 512, 32>>
        /\ pc = "reshape" => x = <<audio[1], 512, 24, 32>>
        /\ pc = "encoder" => /\ x = <<audio[1], 512, 768>>
                             /\ audio_output.shape = <<audio[1], 512, 768>>
                             /\ audio_output.hist = <<"Extractor">>

C1_Witness ==
    /\ StdInput
    /\ audio[1] = MaxBatch
    /\ pc = "encoder"
    /\ audio_output.shape = <<MaxBatch, 512, 768>>

(* C2: when AudioRegressor.forward returns, the first element of the pair   *)
(* has shape [B, 1] and was produced by extractor -> encoder block -> GRU   *)
(* -> selection of the last time index -> linear layer, each consuming the  *)
(* previous one's output; the GRU was started from torch.zeros of shape     *)
(* [2, B, 64]; the second element is the encoder block's output (extractor  *)
(* -> encoder block, not the GRU's), of shape [B, 512, 768].                *)
C2_ForwardOrder ==
    pc = "done" =>
        /\ Len(ret) = 2
        /\ ret[1].shape = <<audio[1], 1>>
        /\ ret[1].hist = <<"Extractor", "AEBlock1", "gru", "select", "fc">>
        /\ out.init = <<"zeros">>
        /\ h0.shape = <<2, audio[1], 64>>
        /\ out.shape = <<audio[1], 512, 64>>
        /\ h_t.index = out.shape[2] - 1
        /\ ret[2].shape = <<audio[1], 512, 768>>
        /\ ret[2].hist = <<"Extractor", "AEBlock1">>
        /\ ret[2] # out

C2_Witness ==
    /\ pc = "done"
    /\ StdInput
    /\ ret[1].shape = <<audio[1], 1>>
    /\ ret[2].shape = <<audio[1], 512, 768>>

----------------------------------------------------------------------------
(* Tensor values: [shape, data], data in row-major (contiguous) order.     *)
(* Indices are 0-based as in the code; data is a 1-based sequence.         *)

(* Sum of q[lo..hi], by halves (the recursion is only log-deep).           *)
RECURSIVE SumRange(_, _, _)
SumRange(q, lo, hi) ==
    IF lo > hi THEN 0
    ELSE IF lo = hi THEN q[lo]
    ELSE LET mid == (lo + hi) \div 2
         IN  SumRange(q, lo, mid) + SumRange(q, mid + 1, hi)

SumSeq(q, n) == SumRange(q, 1, n)

(* Row-major offset of a multi-index, and its inverse.                     *)
RECURSIVE Ravel(_, _)
Ravel(ix, s) ==
    IF ix = <<>> THEN 0
    ELSE ix[1] * Numel(Tail(s)) + Ravel(Tail(ix), Tail(s))

RECURSIVE Unravel(_, _)
Unravel(j, s) ==
    IF s = <<>> THEN <<>>
    ELSE <<j \div Numel(Tail(s))>> \o Unravel(j % Numel(Tail(s)), Tail(s))

At(X, ix) == X.data[Ravel(ix, X.shape) + 1]

(* The same offset written out for four axes.                              *)
At4(X, b, c, t, f) ==
    X.data[((b * X.shape[2] + c) * X.shape[3] + t) * X.shape[4] + f + 1]

(* Conv2d weights, bias=False.  xavier_uniform_ draws them at random,      *)
(* symmetric around 0; the model draws one of a few integer weight tensors *)
(* with entries in {-1, 0, 1}, selected by seed.                           *)
Weight(seed, o, i, dh, dw) ==
    (((seed + o) * (i + 2) + (seed + 1) * dh + (2 * seed + 1) * dw) % 3) - 1

(* nn.Conv2d(cin, cout, (kh, kw), padding=(ph, pw), stride=(sh, sw)) on a  *)
(* [B, cin, H, W] tensor: cross-correlation with zero padding.             *)
ConvData(L, seed, X) ==
    LET s  == X.shape
        os == ConvShape(L, s)
        nt == L.cin * L.kh * L.kw
        Term(b, o, t, f, k) ==
            LET i  == k \div (L.kh * L.kw)
                dh == (k \div L.kw) % L.kh
                dw == k % L.kw
                r  == t * L.sh - L.ph + dh
                c  == f * L.sw - L.pw + dw
            IN  IF r >= 0 /\ r < s[3] /\ c >= 0 /\ c < s[4]
                  THEN Weight(seed, o, i, dh, dw) * At4(X, b, i, r, c)
                  ELSE 0
        Elem(j) ==
            LET f == j % os[4]
                t == (j \div os[4]) % os[3]
                o == (j \div (os[4] * os[3])) % os[2]
                b == j \div (os[4] * os[3] * os[2])
            IN  SumSeq([k \in 1..nt |-> Term(b, o, t, f, k - 1)], nt)
    IN  [shape |-> os, data |-> [j \in 1..Numel(os) |-> Elem(j - 1)]]

(* F.relu                                                                   *)
Relu(X) ==
    [shape |-> X.shape,
     data  |-> [j \in 1..Len(X.data) |-> IF X.data[j] > 0 THEN X.data[j] ELSE 0]]

(* Tensor.transpose(d1, d2): the element at index ix of the result is the  *)
(* element of X at ix with positions d1 and d2 exchanged.                  *)
TransposeData(X, d1, d2) ==
    LET os == TransposeShape(X.shape, d1, d2)
    IN  [shape |-> os,
         data  |-> [j \in 1..Numel(os) |->
                      At(X, TransposeShape(Unravel(j - 1, os), d1, d2))]]

(* Tensor.reshape([b, rows, -1]): same elements in the same row-major order. *)
ReshapeData(X, b, rows) ==
    [shape |-> ReshapeShape(X.shape, b, rows), data |-> X.data]

----------------------------------------------------------------------------
(* SpecExtract: AudioExtractor.forward on values, on two inputs.           *)
(* The time and frequency lengths (512 and 128 in the program) are scaled  *)
(* down to TimeS and FreqS; the reshape's literal 512 is TimeS here.       *)

TimeS == 2
FreqS == 8

Seeds == {1, 2}
FrameKinds == {0, 1}

(* Value of an input frame of a given kind at channel c, frequency f;      *)
(* kind 0 is a frame of zero padding.                                      *)
FrameValue(kind, c, f) ==
    IF kind = 0 THEN 0 ELSE 1 - ((c + 2 * f) % 3)

(* The input [1, 2, TimeS, FreqS] whose frame t is of kind kinds[t].       *)
InputOf(kinds) ==
    LET s == <<1, InChannels, TimeS, FreqS>>
    IN  [shape |-> s,
         data  |-> [j \in 1..Numel(s) |->
                      LET ix == Unravel(j - 1, s)
                      IN  FrameValue(kinds[ix[3]], ix[2], ix[4])]]

InitExtract ==
    /\ pc = "conv1"
    /\ wseed \in Seeds
    /\ \E ka, kb \in [0..(TimeS - 1) -> FrameKinds] :
          ina = InputOf(ka) /\ inb = InputOf(kb)
    /\ xa = ina
    /\ xb = inb
    /\ fa = Empty
    /\ caller = "" /\ aseed = 0 /\ ax = Empty /\ mask = Empty
    /\ Q = Empty /\ K = Empty /\ V = Empty
    /\ raw = Empty /\ score = Empty /\ att_value = Empty
    /\ audio = <<>> /\ x = <<>> /\ audio_output = None /\ masking = <<>>
    /\ layer = 0 /\ h0 = None /\ out = None /\ h_t = None /\ output = None
    /\ ret = <<>>

(* Each convolution has its own weight tensor.                             *)
FwdConv1(seed, X) == Relu(ConvData(Conv1, seed, X))
FwdConv2(seed, X) == Relu(ConvData(Conv2, seed + 1, X))
FwdConv3(seed, X) == Relu(ConvData(Conv3, seed + 2, X))
FwdConv4(seed, X) == ConvData(Conv4, seed + 3, X)
FwdTranspose(X) == TransposeData(X, 2, 1)
FwdReshape(X, rows) == ReshapeData(X, X.shape[1], rows)

DataConv1 ==
    /\ pc = "conv1"
    /\ xa' = FwdConv1(wseed, xa)
    /\ xb' = FwdConv1(wseed, xb)
    /\ pc' = "conv2"
    /\ UNCHANGED <<wseed, ina, inb, fa>>
    /\ UNCHANGED <<shapeVars, attVars>>

DataConv2 ==
    /\ pc = "conv2"
    /\ xa' = FwdConv2(wseed, xa)
    /\ xb' = FwdConv2(wseed, xb)
    /\ pc' = "conv3"
    /\ UNCHANGED <<wseed, ina, inb, fa>>
    /\ UNCHANGED <<shapeVars, attVars>>

DataConv3 ==
    /\ pc = "conv3"
    /\ xa' = FwdConv3(wseed, xa)
    /\ xb' = FwdConv3(wseed, xb)
    /\ pc' = "conv4"
    /\ UNCHANGED <<wseed, ina, inb, fa>>
    /\ UNCHANGED <<shapeVars, attVars>>

DataConv4 ==
    /\ pc = "conv4"
    /\ xa' = FwdConv4(wseed, xa)
    /\ xb' = FwdConv4(wseed, xb)
    /\ fa' = xa'
    /\ pc' = "transpose"
    /\ UNCHANGED <<wseed, ina, inb>>
    /\ UNCHANGED <<shapeVars, attVars>>

DataTranspose ==
    /\ pc = "transpose"
    /\ xa' = FwdTranspose(xa)
    /\ xb' = FwdTranspose(xb)
    /\ pc' = "reshape"
    /\ UNCHANGED <<wseed, ina, inb, fa>>
    /\ UNCHANGED <<shapeVars, attVars>>

DataReshape ==
    /\ pc = "reshape"
    /\ xa' = FwdReshape(xa, TimeS)
    /\ xb' = FwdReshape(xb, TimeS)
    /\ pc' = "returned"
    /\ UNCHANGED <<wseed, ina, inb, fa>>
    /\ UNCHANGED <<shapeVars, attVars>>

NextExtract ==
    \/ DataConv1 \/ DataConv2 \/ DataConv3 \/ DataConv4
    \/ DataTranspose \/ DataReshape

SpecExtract == InitExtract /\ [][NextExtract]_vars

(* Frame t of a [1, C, T, F] input: its values over channel and frequency. *)
Frame(X, t) ==
    [c \in 0..(X.shape[2] - 1) |->
        [f \in 0..(X.shape[4] - 1) |-> At(X, <<0, c, t, f>>)]]

(* Row t of a [1, T, D] tensor.                                            *)
Row(Y, t) == [d \in 0..(Y.shape[3] - 1) |-> At(Y, <<0, t, d>>)]

Times == 0..(TimeS - 1)

(* C3: in a run of the extractor on two inputs of the same shape, at every *)
(* time index t where the two inputs are equal, the two feature maps are   *)
(* equal at t after each convolution, and the two returned tensors have    *)
(* equal rows t; and row t of the returned tensor holds, channel after     *)
(* channel, the frequency bins of frame t of conv4's feature map (entry    *)
(* c * W + f is the map's value at (c, t, f)).                             *)
C3_RowDependsOnFrame ==
    /\ pc \in {"conv2", "conv3", "conv4", "transpose"} =>
          /\ xa.shape[3] = TimeS /\ xb.shape[3] = TimeS
          /\ \A t \in Times : Frame(ina, t) = Frame(inb, t) => Frame(xa, t) = Frame(xb, t)
    /\ pc = "returned" =>
          /\ \A t \in Times : Frame(ina, t) = Frame(inb, t) => Row(xa, t) = Row(xb, t)
          /\ xa.shape = <<1, TimeS, fa.shape[2] * fa.shape[4]>>
          /\ \A t \in Times : \A c \in 0..(fa.shape[2] - 1) : \A f \in 0..(fa.shape[4] - 1) :
                At(xa, <<0, t, c * fa.shape[4] + f>>) = At4(fa, 0, c, t, f)

(* Two inputs equal at frame t and different at frame u, whose output rows *)
(* differ at u (the outputs do depend on the input) and agree at t.        *)
C3_Witness ==
    /\ pc = "returned"
    /\ \E t, u \in Times :
          /\ Frame(ina, t) = Frame(inb, t)
          /\ Frame(ina, u) # Frame(inb, u)
          /\ Row(xa, u) # Row(xb, u)
          /\ Row(xa, t) = Row(xb, t)
          /\ \E d \in DOMAIN Row(xa, t) : Row(xa, t)[d] # 0

----------------------------------------------------------------------------
(* SpecAttn: AEBlock1.forward's mask and the attention of its first layer, *)
(* on values.  Sizes are scaled down: a batch of MaxBatch items, SeqS time *)
(* frames, HeadsS heads of HeadDimS features (hidden_dim = HeadsS *        *)
(* HeadDimS).  Floating-point values are modelled as integers.             *)

SeqS == 2
HeadsS == 2
HeadDimS == 2

HiddenS == HeadsS * HeadDimS

AttKinds == {0, 1, 2}

(* Feature d of a frame of a given kind: kind 0 is zero padding, kind 1    *)
(* has some features equal to 0 and some not, kind 2 has none equal to 0.  *)
FeatureValue(kind, d) ==
    CASE kind = 0 -> 0
      [] kind = 1 -> IF d % 2 = 0 THEN 0 ELSE 1 + (d % 3)
      [] OTHER    -> IF d % 3 = 0 THEN -1 ELSE d % 3

(* The input [MaxBatch, SeqS, HiddenS] whose frame t of batch item b is of *)
(* kind kinds[t] + b (mod 3).                                              *)
AttInputOf(kinds) ==
    LET s == <<MaxBatch, SeqS, HiddenS>>
    IN  [shape |-> s,
         data  |-> [j \in 1..Numel(s) |->
                      LET ix == Unravel(j - 1, s)
                      IN  FeatureValue((kinds[ix[2]] + ix[1]) % 3, ix[3])]]

(* padding_mask_audio: torch.all(audio != 0, axis=2).unsqueeze(-2)         *)
PaddingMask(X) ==
    LET s == <<X.shape[1], 1, X.shape[2]>>
    IN  [shape |-> s,
         data  |-> [j \in 1..Numel(s) |->
                      LET ix == Unravel(j - 1, s)
                      IN  \A d \in 0..(X.shape[3] - 1) : At(X, <<ix[1], ix[3], d>>) # 0]]

(* Weights of Q_fc, K_fc, V_fc (which = 0, 1, 2), bias=False: one of a few *)
(* integer matrices with entries in {-1, 0, 1}.                            *)
LinearWeight(seed, which, j, d) == (((seed + which) * (j + 1) + (which + 2) * d) % 3) - 1

(* nn.Linear(D, D, bias=False) on [B, T, D].                               *)
LinearData(seed, which, X) ==
    LET s == X.shape
    IN  [shape |-> s,
         data  |-> [n \in 1..Numel(s) |->
                      LET ix == Unravel(n - 1, s)
                      IN  SumSeq([d \in 1..s[3] |->
                                    LinearWeight(seed, which, ix[3], d - 1)
                                      * At(X, <<ix[1], ix[2], d - 1>>)], s[3])]]

(* Tensor.view(shape): same elements in the same row-major order.          *)
ViewData(X, s) == [shape |-> s, data |-> X.data]

(* self.X_fc(input).view(batch_size, -1, num_head, head_dim).transpose(1, 2) *)
Project(seed, which, X, num_head, head_dim) ==
    TransposeData(
        ViewData(LinearData(seed, which, X),
                 <<X.shape[1], Numel(X.shape) \div (X.shape[1] * num_head * head_dim),
                   num_head, head_dim>>),
        1, 2)

(* torch.matmul on two 4-axis tensors: batched over the first two axes.    *)
Matmul(A, B) ==
    LET s == <<A.shape[1], A.shape[2], A.shape[3], B.shape[4]>>
    IN  [shape |-> s,
         data  |-> [n \in 1..Numel(s) |->
                      LET ix == Unravel(n - 1, s)
                      IN  SumSeq([e \in 1..A.shape[4] |->
                                    At4(A, ix[1], ix[2], ix[3], e - 1)
                                      * At4(B, ix[1], ix[2], e - 1, ix[4])], A.shape[4])]]

(* math.sqrt(dim), to the integer below.                                   *)
ISqrt(n) == CHOOSE r \in 0..n : r * r <= n /\ (r + 1) * (r + 1) > n

(* KV / math.sqrt(dim), elementwise (integer quotient).                    *)
DivData(X, d) == [shape |-> X.shape, data |-> [n \in 1..Len(X.data) |-> X.data[n] \div d]]

(* score = matmul(Q, transpose(K, -2, -1)) / math.sqrt(Q.size()[-1])       *)
ScaledScore(q, k) == DivData(Matmul(q, TransposeData(k, 2, 3)), ISqrt(q.shape[4]))

(* Tensor.unsqueeze(d)                                                     *)
UnsqueezeData(X, d) == [shape |-> UnsqueezeShape(X.shape, d), data |-> X.data]

(* ~mask                                                                   *)
NotData(M) == [shape |-> M.shape, data |-> [n \in 1..Len(M.data) |-> ~M.data[n]]]

(* Broadcasting: the index into a tensor of shape ms that pairs with index *)
(* ix of the larger tensor (an axis of size 1 is read at 0).               *)
BroadcastIndex(ix, ms) == [i \in 1..Len(ix) |-> IF ms[i] = 1 THEN 0 ELSE ix[i]]

(* torch.masked_fill(S, M, v): v where M (broadcast to S) is True.         *)
MaskedFill(S, M, v) ==
    [shape |-> S.shape,
     data  |-> [n \in 1..Len(S.data) |->
                  IF At(M, BroadcastIndex(Unravel(n - 1, S.shape), M.shape))
                    THEN v ELSE S.data[n]]]

FillValue == -1000000000

(* mask = mask.unsqueeze(1); score = torch.masked_fill(score, ~mask, -1e9) *)
ApplyMaskQueryAxis(S, M) ==
    MaskedFill(S, NotData(UnsqueezeData(TransposeData(M, 1, 2), 1)), FillValue)
ApplyMask(S, M) == MaskedFill(S, NotData(UnsqueezeData(M, 1)), FillValue)

(* exp on the fixed-point grid of F.softmax's model: ExpUnit stands for    *)
(* 1.0, ExpRatio for exp(-1); exp(d) is 0 below -ExpCut (in float32 exp    *)
(* underflows to 0 there; on this grid it already does so earlier).        *)
ExpUnit == 1000
ExpRatio == 368
ExpCut == 104

RECURSIVE ExpQ(_)
ExpQ(d) ==
    IF d >= 0 THEN ExpUnit
    ELSE IF d < -ExpCut THEN 0
    ELSE IF d % 2 = 0
      THEN LET h == ExpQ(d \div 2) IN (h * h) \div ExpUnit
      ELSE (ExpQ(d + 1) * ExpRatio) \div ExpUnit

RECURSIVE MaxSeq(_, _)
MaxSeq(q, n) ==
    IF n = 1 THEN q[1]
    ELSE LET m == MaxSeq(q, n - 1) IN IF q[n] > m THEN q[n] ELSE m

(* F.softmax(score, dim=-1) on a 4-axis tensor, as fractions of ExpUnit.   *)
Softmax(S) ==
    LET n4 == S.shape[4]
        RowOf(n) == [k \in 1..n4 |-> S.data[((n - 1) \div n4) * n4 + k]]
        Weight1(n) ==
            LET r == RowOf(n)
                m == MaxSeq(r, n4)
                e == [k \in 1..n4 |-> ExpQ(r[k] - m)]
            IN  (ExpQ(S.data[n] - m) * ExpUnit) \div SumSeq(e, n4)
    IN  [shape |-> S.shape, data |-> [n \in 1..Len(S.data) |-> Weight1(n)]]

(* nn.Dropout(p=0.1), built inside Self_Attention and therefore always in  *)
(* training mode: the elements at the positions in drop become 0, the      *)
(* others are scaled by 1 / (1 - p) = 10 / 9.                              *)
DropScaleNum == 10
DropScaleDen == 9

Dropout(S, drop) ==
    [shape |-> S.shape,
     data  |-> [n \in 1..Len(S.data) |->
                  IF n \in drop THEN 0 ELSE (S.data[n] * DropScaleNum) \div DropScaleDen]]

(* The positions dropout may zero in the model: none, or any single one.   *)
DropChoices(S) == {{}} \cup {{n} : n \in 1..Len(S.data)}

InitAttn ==
    /\ pc = "mask"
    /\ caller \in {"AEBlock1", "MHA"}
    /\ aseed \in Seeds
    /\ \E kinds \in [0..(SeqS - 1) -> AttKinds] : ax = AttInputOf(kinds)
    /\ mask = Empty
    /\ Q = Empty /\ K = Empty /\ V = Empty
    /\ raw = Empty /\ score = Empty /\ att_value = Empty
    /\ wseed = 0
    /\ ina = Empty /\ inb = Empty /\ xa = Empty /\ xb = Empty /\ fa = Empty
    /\ audio = <<>> /\ x = <<>> /\ audio_output = None /\ masking = <<>>
    /\ layer = 0 /\ h0 = None /\ out = None /\ h_t = None /\ output = None
    /\ ret = <<>>

(* AEBlock1.forward: masking = padding_mask_audio(x); layer(x, masking)    *)
AttMask ==
    /\ pc = "mask"
    /\ caller = "AEBlock1"
    /\ mask' = PaddingMask(ax)
    /\ pc' = "project"
    /\ UNCHANGED <<caller, aseed, ax, Q, K, V, raw, score, att_value>>
    /\ UNCHANGED <<shapeVars, extVars>>

(* MHA.forward called with its default mask=None                           *)
AttNoMask ==
    /\ pc = "mask"
    /\ caller = "MHA"
    /\ mask' = Empty
    /\ pc' = "project"
    /\ UNCHANGED <<caller, aseed, ax, Q, K, V, raw, score, att_value>>
    /\ UNCHANGED <<shapeVars, extVars>>

(* MHA.forward: Q, K, V from Q_input = K_input = V_input = x               *)
AttProject ==
    /\ pc = "project"
    /\ Q' = Project(aseed, 0, ax, HeadsS, HeadDimS)
    /\ K' = Project(aseed, 1, ax, HeadsS, HeadDimS)
    /\ V' = Project(aseed, 2, ax, HeadsS, HeadDimS)
    /\ pc' = "score"
    /\ UNCHANGED <<caller, aseed, ax, mask, raw, score, att_value>>
    /\ UNCHANGED <<shapeVars, extVars>>

(* Self_Attention: score = KV / math.sqrt(dim)                             *)
AttScore ==
    /\ pc = "score"
    /\ raw' = ScaledScore(Q, K)
    /\ score' = raw'
    /\ pc' = "fill"
    /\ UNCHANGED <<caller, aseed, ax, mask, Q, K, V, att_value>>
    /\ UNCHANGED <<shapeVars, extVars>>

(* Self_Attention: if mask is not None: ... masked_fill ...                *)
AttFill ==
    /\ pc = "fill"
    /\ score' = IF mask # Empty THEN ApplyMask(score, mask) ELSE score
    /\ pc' = "softmax"
    /\ UNCHANGED <<caller, aseed, ax, mask, Q, K, V, raw, att_value>>
    /\ UNCHANGED <<shapeVars, extVars>>

(* Self_Attention: score = drop(F.softmax(score, dim=-1))                  *)
AttSoftmax ==
    /\ pc = "softmax"
    /\ \E drop \in DropChoices(score) : score' = Dropout(Softmax(score), drop)
    /\ pc' = "value"
    /\ UNCHANGED <<caller, aseed, ax, mask, Q, K, V, raw, att_value>>
    /\ UNCHANGED <<shapeVars, extVars>>

(* Self_Attention: att_value = matmul(score, V); return att_value, score   *)
AttValue ==
    /\ pc = "value"
    /\ att_value' = Matmul(score, V)
    /\ pc' = "returned"
    /\ UNCHANGED <<caller, aseed, ax, mask, Q, K, V, raw, score>>
    /\ UNCHANGED <<shapeVars, extVars>>

NextAttn ==
    \/ AttMask \/ AttNoMask \/ AttProject \/ AttScore
    \/ AttFill \/ AttSoftmax \/ AttValue

SpecAttn == InitAttn /\ [][NextAttn]_vars

----------------------------------------------------------------------------
(* Claims checked under SpecAttn.                                          *)

Batches == 0..(MaxBatch - 1)
Heads == 0..(HeadsS - 1)
Positions == 0..(SeqS - 1)

MaskAt(b, t) == At(mask, <<b, 0, t>>)
ZeroFrame(b, t) == \A d \in 0..(HiddenS - 1) : At(ax, <<b, t, d>>) = 0

(* C4: the mask returned by padding_mask_audio has shape [B, 1, T] and its *)
(* entry for batch item b and frame t is False exactly when every feature  *)
(* of that frame is 0, and True for every other frame.                     *)
C4_MaskIsZeroPadding ==
    (caller = "AEBlock1" /\ pc # "mask") =>
        /\ mask.shape = <<MaxBatch, 1, SeqS>>
        /\ \A b \in Batches : \A t \in Positions : (~MaskAt(b, t)) <=> ZeroFrame(b, t)

(* What the code computes instead: the entry is False exactly when some    *)
(* feature of the frame is 0.                                              *)
C4_MaskIsAnyZero ==
    (caller = "AEBlock1" /\ pc # "mask") =>
        /\ mask.shape = <<MaxBatch, 1, SeqS>>
        /\ \A b \in Batches : \A t \in Positions :
              (~MaskAt(b, t)) <=> (\E d \in 0..(HiddenS - 1) : At(ax, <<b, t, d>>) = 0)

(* C5: in a call of Self_Attention with a mask, once the mask is applied   *)
(* the score of (b, h, q, k) is -1e9 when the mask entry of key k of batch *)
(* item b is False and the unmasked score otherwise, for every head h and  *)
(* every query q; and after softmax and dropout every key whose mask entry *)
(* is False has weight 0 in every row of a batch item that has at least    *)
(* one key whose mask entry is True, and so it still has when the function *)
(* returns.                                                                *)
C5_MaskOnKeyAxis ==
    mask # Empty =>
        /\ pc = "softmax" =>
              \A b \in Batches : \A h \in Heads : \A q \in Positions : \A k \in Positions :
                 At4(score, b, h, q, k) =
                    IF MaskAt(b, k) THEN At4(raw, b, h, q, k) ELSE FillValue
        /\ pc \in {"value", "returned"} =>
              \A b \in Batches : \A h \in Heads : \A q \in Positions : \A k \in Positions :
                 (~MaskAt(b, k) /\ \E k2 \in Positions : MaskAt(b, k2))
                    => At4(score, b, h, q, k) = 0

(* A returned call in which a batch item has a masked and an unmasked key, *)
(* and a query that is itself masked gives the masked key weight 0 and the *)
(* unmasked key a positive weight, the raw score of the masked key not     *)
(* being the smaller one.                                                  *)
C5_Witness ==
    /\ pc = "returned"
    /\ mask # Empty
    /\ \E b \in Batches : \E h \in Heads : \E q, k, k2 \in Positions :
          /\ ~MaskAt(b, q)
          /\ ~MaskAt(b, k)
          /\ MaskAt(b, k2)
          /\ At4(raw, b, h, q, k) > At4(raw, b, h, q, k2)
          /\ At4(score, b, h, q, k) = 0
          /\ At4(score, b, h, q, k2) > 0

====
